---- MODULE Spec2Model ----
(***************************************************************************)
(* Model of src/src/routing_optimization.py: the greedy route builder      *)
(* (VanRouter), the single-van optimizer and the multi-van allocator.      *)
(*                                                                         *)
(* Python values are represented as follows:                               *)
(*   tuple / list          -> sequence                                     *)
(*   None                  -> None (the empty sequence, falsy like [])     *)
(*   float("inf")          -> Inf                                          *)
(*   (dist, (p, d, w))     -> <<dist, p, d, w>> (same lexicographic order) *)
(***************************************************************************)
EXTENDS Integers, Sequences, FiniteSets, Bags, TLC

\* ------------------------------------------------------------------------
\* Bounds of the explored inputs
\* ------------------------------------------------------------------------
MaxPkgs == 2
MaxVans == 2

Locations == {-1, 0, 1}
Weights == {1, 2}
Capacities == {1, 2}
FuelRates == {1, 2}

\* ------------------------------------------------------------------------
\* Program constants
\* ------------------------------------------------------------------------
WindowSize == 5
EventCap == 10
ShortlistSize == 3
Inf == -1
None == <<>>

\* ------------------------------------------------------------------------
\* Generic helpers
\* ------------------------------------------------------------------------
Abs(x) == IF x < 0 THEN -x ELSE x

Min_second(a, b) == b

Min(a, b) == IF a < b THEN a ELSE b

SeqsUpTo(S, n) == UNION {[1..k -> S] : k \in 0..n}

RECURSIVE SeqToBag(_)
SeqToBag(s) ==
    IF s = <<>> THEN EmptyBag ELSE SetToBag({Head(s)}) (+) SeqToBag(Tail(s))

RECURSIVE MapPickups(_)
\* [(p[0], p[2]) for p in packages]
MapPickups(ps) ==
    IF ps = <<>> THEN <<>>
    ELSE <<<<Head(ps)[1], Head(ps)[3]>>>> \o MapPickups(Tail(ps))

RECURSIVE SelfTriples(_)
\* [(loc, loc, weight) for loc, weight in xs]
SelfTriples(xs) ==
    IF xs = <<>> THEN <<>>
    ELSE <<<<Head(xs)[1], Head(xs)[1], Head(xs)[2]>>>> \o SelfTriples(Tail(xs))

RECURSIVE RemoveFirst(_, _)
\* list.remove(x): removes the first element equal to x
RemoveFirst_keep(s, x) == s

RemoveFirst(s, x) ==
    IF s = <<>> THEN <<>>
    ELSE IF Head(s) = x THEN Tail(s)
    ELSE <<Head(s)>> \o RemoveFirst(Tail(s), x)

\* ------------------------------------------------------------------------
\* distance and Python's tuple order
\* ------------------------------------------------------------------------
distance_signed(a, b) == a - b

distance(a, b) == Abs(a - b)

\* a < b for two tuples of integers of the same length
TupleLess_key_only(a, b) == a[1] < b[1]

TupleLess(a, b) ==
    \E i \in 1..Len(a) :
        /\ a[i] < b[i]
        /\ \A j \in 1..(i - 1) : a[j] = b[j]

\* ------------------------------------------------------------------------
\* heapq (binary min-heap on a list; positions are 0-based as in Python)
\* ------------------------------------------------------------------------
RECURSIVE SiftDown(_, _, _, _)
SiftDown(heap, startpos, pos, newitem) ==
    IF pos > startpos
    THEN LET parentpos == (pos - 1) \div 2
             parent == heap[parentpos + 1]
         IN  IF TupleLess(newitem, parent)
             THEN SiftDown([heap EXCEPT ![pos + 1] = parent],
                           startpos, parentpos, newitem)
             ELSE [heap EXCEPT ![pos + 1] = newitem]
    ELSE [heap EXCEPT ![pos + 1] = newitem]

RECURSIVE SiftUpLoop(_, _, _, _)
SiftUpLoop(heap, startpos, pos, newitem) ==
    LET endpos == Len(heap)
        childpos == 2 * pos + 1
        rightpos == childpos + 1
    IN  IF childpos < endpos
        THEN LET c == IF /\ rightpos < endpos
                         /\ ~TupleLess(heap[childpos + 1], heap[rightpos + 1])
                      THEN rightpos ELSE childpos
             IN  SiftUpLoop([heap EXCEPT ![pos + 1] = heap[c + 1]],
                            startpos, c, newitem)
        ELSE SiftDown(heap, startpos, pos, newitem)

SiftUp(heap, pos) == SiftUpLoop(heap, pos, pos, heap[pos + 1])

RECURSIVE HeapifyFrom(_, _)
HeapifyFrom(x, i) ==
    IF i < 0 THEN x ELSE HeapifyFrom(SiftUp(x, i), i - 1)

Heapify(x) == HeapifyFrom(x, (Len(x) \div 2) - 1)

\* heappop: the popped item and the heap left behind
HeapPop_list_pop(heap) ==
    [item |-> heap[Len(heap)], heap |-> SubSeq(heap, 1, Len(heap) - 1)]

HeapPop(heap) ==
    LET n == Len(heap)
        lastelt == heap[n]
        rest == SubSeq(heap, 1, n - 1)
    IN  IF rest # <<>>
        THEN [item |-> rest[1], heap |-> SiftUp([rest EXCEPT ![1] = lastelt], 0)]
        ELSE [item |-> lastelt, heap |-> <<>>]

RECURSIVE PopN(_, _)
\* [heappop(heap) for _ in range(n)] and the heap left behind
PopN(heap, n) ==
    IF n = 0 THEN [items |-> <<>>, heap |-> heap]
    ELSE LET r == HeapPop(heap)
             more == PopN(r.heap, n - 1)
         IN  [items |-> <<r.item>> \o more.items, heap |-> more.heap]

RECURSIVE StripKeys(_)
\* [p for _, p in heap]
StripKeys(h) ==
    IF h = <<>> THEN <<>> ELSE <<Tail(Head(h))>> \o StripKeys(Tail(h))

RECURSIVE DepotKeyed(_)
\* [(distance(0, p[0]), p) for p in packages]
DepotKeyed(ps) ==
    IF ps = <<>> THEN <<>>
    ELSE <<<<distance(0, Head(ps)[1])>> \o Head(ps)>> \o DepotKeyed(Tail(ps))

\* ------------------------------------------------------------------------
\* filter_invalid_input
\* ------------------------------------------------------------------------
ValidVan(v) == v[1] > 0 /\ v[2] > 0

ValidPackage(p) == p[3] > 0 /\ p[1] # p[2]

InvalidPackage(p) == ~ValidPackage(p)

valid_van_stats(van_stats) == SelectSeq(van_stats, ValidVan)

valid_packages(pkgs) == SelectSeq(pkgs, ValidPackage)

RECURSIVE Warnings(_, _)
\* one log record per element of xs
Warnings(kind, xs) ==
    IF xs = <<>> THEN <<>>
    ELSE <<<<kind, Head(xs)>>>> \o Warnings(kind, Tail(xs))

invalid_package_warnings(pkgs) ==
    Warnings("invalid package", SelectSeq(pkgs, InvalidPackage))

\* ------------------------------------------------------------------------
\* VanRouter
\* ------------------------------------------------------------------------
StartMove == <<0, "start", 0>>
EndMove == <<0, "end", 0>>

VanRouterInit(van_stats, pkgs) ==
    LET heap == Heapify(DepotKeyed(pkgs))
        popped == PopN(heap, Min(WindowSize, Len(heap)))
        window == StripKeys(popped.items)
    IN  [van_capacity |-> van_stats[1],
         fuel_per_unit |-> van_stats[2],
         route |-> <<StartMove>>,
         current_location |-> 0,
         total_distance |-> 0,
         total_fuel |-> 0,
         current_load |-> 0,
         picked_up_packages |-> 0,
         delivered_packages |-> 0,
         pickups |-> MapPickups(window),
         deliveries |-> <<>>,
         not_completed |-> StripKeys(popped.heap),
         packages |-> window]

NoRouter == VanRouterInit(<<0, 0>>, <<>>)

\* the capacity test of the pickup heap's comprehension
FitsVan_unchecked(load, weight, capacity) == TRUE

FitsVan(load, weight, capacity) == load + weight <= capacity

RECURSIVE pickup_heap_items(_, _)
pickup_heap_items(r, pk) ==
    IF pk = <<>> THEN <<>>
    ELSE (IF FitsVan(r.current_load, Head(pk)[2], r.van_capacity)
          THEN <<<<distance(r.current_location, Head(pk)[1]),
                   Head(pk)[1], Head(pk)[2]>>>>
          ELSE <<>>)
         \o pickup_heap_items(r, Tail(pk))

RECURSIVE delivery_heap_items(_, _)
delivery_heap_items_none(r, dl) == <<>>

delivery_heap_items(r, dl) ==
    IF dl = <<>> THEN <<>>
    ELSE <<<<distance(r.current_location, Head(dl)[1]),
             Head(dl)[1], Head(dl)[2]>>>>
         \o delivery_heap_items(r, Tail(dl))

\* a move is <<distance, location, action, weight>>
find_nearest_valid_move_strict(r) ==
    LET pickup_heap == Heapify(pickup_heap_items(r, r.pickups))
        delivery_heap == Heapify(delivery_heap_items(r, r.deliveries))
        nearest_pickup ==
            IF pickup_heap # <<>> THEN HeapPop(pickup_heap).item ELSE None
        nearest_delivery ==
            IF delivery_heap # <<>> THEN HeapPop(delivery_heap).item ELSE None
    IN  IF /\ nearest_pickup # None
           /\ \/ nearest_delivery = None
              \/ nearest_pickup[1] < nearest_delivery[1]
        THEN <<nearest_pickup[1], nearest_pickup[2], "pick", nearest_pickup[3]>>
        ELSE IF nearest_delivery # None
        THEN <<nearest_delivery[1], nearest_delivery[2], "drop",
               nearest_delivery[3]>>
        ELSE None

find_nearest_valid_move(r) ==
    LET pickup_heap == Heapify(pickup_heap_items(r, r.pickups))
        delivery_heap == Heapify(delivery_heap_items(r, r.deliveries))
        nearest_pickup ==
            IF pickup_heap # <<>> THEN HeapPop(pickup_heap).item ELSE None
        nearest_delivery ==
            IF delivery_heap # <<>> THEN HeapPop(delivery_heap).item ELSE None
    IN  IF /\ nearest_pickup # None
           /\ \/ nearest_delivery = None
              \/ nearest_pickup[1] <= nearest_delivery[1]
        THEN <<nearest_pickup[1], nearest_pickup[2], "pick", nearest_pickup[3]>>
        ELSE IF nearest_delivery # None
        THEN <<nearest_delivery[1], nearest_delivery[2], "drop",
               nearest_delivery[3]>>
        ELSE None

\* the while condition of construct_route
LoopGuard_window_cap(r) ==
    /\ r.pickups # <<>> \/ r.deliveries # <<>>
    /\ r.picked_up_packages + r.delivered_packages < WindowSize

LoopGuard(r) ==
    /\ r.pickups # <<>> \/ r.deliveries # <<>>
    /\ r.picked_up_packages + r.delivered_packages < EventCap

\* next(d for p, d, w in self.packages if p == loc)
delivery_loc(pkgs, loc) ==
    LET i == CHOOSE k \in 1..Len(pkgs) :
                 /\ pkgs[k][1] = loc
                 /\ \A j \in 1..(k - 1) : pkgs[j][1] # loc
    IN  pkgs[i][2]

\* one iteration of the loop body with a move
ApplyMove(r, move) ==
    LET dist == move[1]
        loc == move[2]
        action == move[3]
        weight == move[4]
        moved == [r EXCEPT
                    !.total_distance = @ + dist,
                    !.total_fuel = @ + dist * r.fuel_per_unit,
                    !.route = Append(@, <<loc, action, weight>>),
                    !.current_location = loc]
    IN  IF action = "pick"
        THEN [moved EXCEPT
                !.current_load = @ + weight,
                !.pickups = RemoveFirst(@, <<loc, weight>>),
                !.deliveries = Append(@, <<delivery_loc(r.packages, loc), weight>>),
                !.picked_up_packages = @ + 1]
        ELSE [moved EXCEPT
                !.current_load = @ - weight,
                !.deliveries = RemoveFirst(@, <<loc, weight>>),
                !.delivered_packages = @ + 1]

\* the two extends of not_completed (both exits)
ExtendNotCompleted(r) ==
    [r EXCEPT !.not_completed =
        @ \o SelfTriples(r.pickups) \o SelfTriples(r.deliveries)]

ReturnToDepot_free_leg(r) ==
    ExtendNotCompleted([r EXCEPT !.route = Append(@, EndMove)])

ReturnToDepot(r) ==
    ExtendNotCompleted(
        [r EXCEPT
           !.total_distance = @ + distance(r.current_location, 0),
           !.total_fuel = @ + distance(r.current_location, 0) * r.fuel_per_unit,
           !.route = Append(@, EndMove)])

\* ------------------------------------------------------------------------
\* find_optimal_route_for_single_van: helpers
\* ------------------------------------------------------------------------
\* fuel < best_fuel, with best_fuel possibly float("inf")
FloatLess(x, y) == y = Inf \/ x < y

IsBetter_ties_to_last(fuel, best_fuel, picked_up) ==
    (best_fuel = Inf \/ fuel <= best_fuel) /\ picked_up > 0

IsBetter_any_attempt(fuel, best_fuel, picked_up) ==
    FloatLess(fuel, best_fuel)

\* the test that replaces the best attempt
IsBetter(fuel, best_fuel, picked_up) ==
    FloatLess(fuel, best_fuel) /\ picked_up > 0

NoSingle ==
    [van_stats |-> <<>>, packages |-> <<>>, log_not_completed |-> FALSE,
     i |-> 0, best_van |-> None, best_route |-> None,
     best_distance |-> Inf, best_fuel |-> Inf, best_not_completed |-> <<>>,
     attempts |-> <<>>, result |-> None]

\* the frame of a call find_optimal_route_for_single_van(vans, pkgs, flag)
SingleCall(vans, pkgs, flag) ==
    [NoSingle EXCEPT !.van_stats = vans, !.packages = pkgs,
                     !.log_not_completed = flag]

\* ------------------------------------------------------------------------
\* find_optimal_route_for_multiple_vans: helpers
\* ------------------------------------------------------------------------
RECURSIVE InsertByFuel(_, _)
\* v goes after every van whose fuel per unit is not greater (stable)
InsertByFuel(sorted, v) ==
    IF sorted = <<>> THEN <<v>>
    ELSE IF v[2] < Head(sorted)[2] THEN <<v>> \o sorted
    ELSE <<Head(sorted)>> \o InsertByFuel(Tail(sorted), v)

RECURSIVE SortByFuel(_)
\* sorted(van_stats, key=lambda x: x[1])
SortByFuel(vans) ==
    IF vans = <<>> THEN <<>>
    ELSE InsertByFuel(SortByFuel(SubSeq(vans, 1, Len(vans) - 1)),
                      vans[Len(vans)])

top_vans_of_unsorted(vans) == SubSeq(vans, 1, Min(ShortlistSize, Len(vans)))

top_vans_of(vans) ==
    LET sorted == SortByFuel(vans)
    IN  SubSeq(sorted, 1, Min(ShortlistSize, Len(sorted)))

NoMulti ==
    [packages |-> <<>>, top_vans |-> <<>>, i |-> 0, stopped |-> FALSE,
     total_fuel |-> 0, total_distance |-> 0, vans_used |-> <<>>,
     routes |-> <<>>, remaining_packages |-> <<>>, result |-> None]

\* ------------------------------------------------------------------------
\* Inputs
\* ------------------------------------------------------------------------
Vans == Capacities \X FuelRates

Packages == {p \in Locations \X Locations \X Weights : p[1] # p[2]}

\* the package lists explored: one list per multiset of packages (the heap
\* of VanRouter.__init__ orders the window by value, whatever the list order)
PackageLess(a, b) ==
    \/ a[1] < b[1]
    \/ a[1] = b[1] /\ a[2] < b[2]
    \/ a[1] = b[1] /\ a[2] = b[2] /\ a[3] < b[3]

IsOrdered(ps) ==
    \A k \in 1..(Len(ps) - 1) : ps[k] = ps[k + 1] \/ PackageLess(ps[k], ps[k + 1])

PackageLists == {ps \in SeqsUpTo(Packages, MaxPkgs) : IsOrdered(ps)}

VanLists == SeqsUpTo(Vans, MaxVans)

\* the example of __main__ and the fixtures of the tests' setUp
BasicVanStats == <<<<10, 10>>, <<9, 8>>>>
BasicPackages == <<<<-1, 5, 4>>, <<6, 2, 9>>, <<-2, 9, 3>>>>
MultipleVanStats == <<<<10, 10>>, <<11, 11>>, <<12, 12>>, <<9, 8>>>>
MultiplePackages ==
    <<<<-1, 5, 4>>, <<6, 2, 9>>, <<-2, 9, 3>>, <<7, 3, 2>>, <<8, 4, 1>>,
      <<10, 1, 5>>>>

\* more packages than the window holds; the last two are equally far from
\* the depot and the one listed first has the greater pickup location
TieVanStats == <<<<2, 1>>>>
TiePackages ==
    <<<<1, 0, 1>>, <<1, 0, 1>>, <<1, 0, 1>>, <<1, 0, 1>>, <<2, 0, 1>>,
      <<-2, 0, 1>>>>

Modes == {"single", "multi"}

BoundedInputs ==
    {[mode |-> m, vans |-> v, packages |-> p] :
        m \in Modes, v \in VanLists, p \in PackageLists}

ExampleInputs ==
    {[mode |-> m, vans |-> BasicVanStats, packages |-> BasicPackages] :
        m \in Modes}
    \cup
    {[mode |-> m, vans |-> MultipleVanStats, packages |-> MultiplePackages] :
        m \in Modes}
    \cup
    {[mode |-> "single", vans |-> TieVanStats, packages |-> TiePackages]}

Inputs == BoundedInputs \cup ExampleInputs

\* ------------------------------------------------------------------------
\* State
\* ------------------------------------------------------------------------
VARIABLES
    input,      \* the arguments of the top-level call
    pc,         \* the position of the program
    router,     \* the VanRouter of the attempt in progress
    single,     \* the frame of find_optimal_route_for_single_van
    multi,      \* the frame of find_optimal_route_for_multiple_vans
    log         \* the warnings emitted so far

vars == <<input, pc, router, single, multi, log>>

Init ==
    \E inp \in Inputs :
        /\ input = inp
        /\ router = NoRouter
        /\ multi = NoMulti
        /\ log = <<>>
        /\ IF inp.mode = "single"
           THEN /\ pc = "single_entry"
                /\ single = SingleCall(inp.vans, inp.packages, TRUE)
           ELSE /\ pc = "multi_entry"
                /\ single = NoSingle

\* where a return of find_optimal_route_for_single_van leads
AfterSingle == IF input.mode = "single" THEN "done" ELSE "multi_accept"

\* ------------------------------------------------------------------------
\* find_optimal_route_for_single_van
\* ------------------------------------------------------------------------
\* filter, the empty-packages returns, the initialisation of best_*
SingleEntry ==
    /\ pc = "single_entry"
    /\ LET vans == valid_van_stats(single.van_stats)
           pkgs == valid_packages(single.packages)
       IN  /\ log' = log \o invalid_package_warnings(single.packages)
           /\ IF pkgs = <<>>
              THEN /\ single' =
                        [single EXCEPT
                           !.van_stats = vans, !.packages = pkgs,
                           !.result =
                              IF vans # <<>>
                              THEN <<vans[1], 0, 0, <<StartMove, EndMove>>, <<>>>>
                              ELSE <<None, 0, 0, <<>>, <<>>>>]
                   /\ pc' = AfterSingle
              ELSE /\ single' =
                        [single EXCEPT
                           !.van_stats = vans, !.packages = pkgs, !.i = 1]
                   /\ pc' = "single_loop"
    /\ UNCHANGED <<input, router, multi>>

\* for van in van_stats: router = VanRouter(van, packages)
NewRouter ==
    /\ pc = "single_loop"
    /\ single.i <= Len(single.van_stats)
    /\ router' = VanRouterInit(single.van_stats[single.i], single.packages)
    /\ pc' = "construct_route"
    /\ UNCHANGED <<input, single, multi, log>>

\* construct_route: one iteration of the loop that makes a move
ActiveStep ==
    /\ pc = "construct_route"
    /\ LoopGuard(router)
    /\ find_nearest_valid_move(router) # None
    /\ router' = ApplyMove(router, find_nearest_valid_move(router))
    /\ UNCHANGED <<input, pc, single, multi, log>>

\* construct_route: no move is found, the early return
NoValidMove_via_depot ==
    /\ pc = "construct_route"
    /\ LoopGuard(router)
    /\ find_nearest_valid_move(router) = None
    /\ router' = ReturnToDepot(router)
    /\ pc' = "attempt_done"
    /\ UNCHANGED <<input, single, multi, log>>

NoValidMove ==
    /\ pc = "construct_route"
    /\ LoopGuard(router)
    /\ find_nearest_valid_move(router) = None
    /\ router' = ExtendNotCompleted(router)
    /\ pc' = "attempt_done"
    /\ UNCHANGED <<input, single, multi, log>>

\* construct_route: the loop has ended, return to the depot
DepotReturn ==
    /\ pc = "construct_route"
    /\ ~LoopGuard(router)
    /\ router' = ReturnToDepot(router)
    /\ pc' = "attempt_done"
    /\ UNCHANGED <<input, single, multi, log>>

\* dist, fuel, route = router.construct_route(); keep it if it is better
SelectBest ==
    /\ pc = "attempt_done"
    /\ LET van == single.van_stats[single.i]
           attempt == [van |-> van,
                       dist |-> router.total_distance,
                       fuel |-> router.total_fuel,
                       route |-> router.route,
                       picked_up_packages |-> router.picked_up_packages,
                       not_completed |-> router.not_completed]
           seen == [single EXCEPT !.attempts = Append(@, attempt),
                                  !.i = @ + 1]
       IN  single' =
              IF IsBetter(router.total_fuel, single.best_fuel,
                          router.picked_up_packages)
              THEN [seen EXCEPT
                      !.best_van = van,
                      !.best_route = router.route,
                      !.best_distance = router.total_distance,
                      !.best_fuel = router.total_fuel,
                      !.best_not_completed = router.not_completed]
              ELSE seen
    /\ pc' = "single_loop"
    /\ UNCHANGED <<input, router, multi, log>>

\* after the loop: the warning and the return
SingleReturn ==
    /\ pc = "single_loop"
    /\ single.i > Len(single.van_stats)
    /\ log' = IF single.best_not_completed # <<>> /\ single.log_not_completed
              THEN Append(log, <<"single van", single.best_not_completed>>)
              ELSE log
    /\ single' =
          [single EXCEPT !.result =
              IF single.best_route # None
              THEN <<single.best_van, single.best_distance, single.best_fuel,
                     single.best_route, single.best_not_completed>>
              ELSE <<None, 0, 0, <<>>, single.packages>>]
    /\ pc' = AfterSingle
    /\ UNCHANGED <<input, router, multi>>

\* ------------------------------------------------------------------------
\* find_optimal_route_for_multiple_vans
\* ------------------------------------------------------------------------
\* filter, the shortlist, the initialisation of the totals
MultiEntry ==
    /\ pc = "multi_entry"
    /\ LET vans == valid_van_stats(input.vans)
           pkgs == valid_packages(input.packages)
       IN  multi' = [NoMulti EXCEPT
                       !.packages = pkgs,
                       !.top_vans = top_vans_of(vans),
                       !.i = 1,
                       !.remaining_packages = pkgs]
    /\ log' = log \o invalid_package_warnings(input.packages)
    /\ pc' = "multi_loop"
    /\ UNCHANGED <<input, router, single>>

\* for van in top_vans: call the single-van optimizer on the remaining pool
MultiCall ==
    /\ pc = "multi_loop"
    /\ ~multi.stopped
    /\ multi.i <= Len(multi.top_vans)
    /\ multi.remaining_packages # <<>>
    /\ single' = SingleCall(<<multi.top_vans[multi.i]>>,
                            multi.remaining_packages, FALSE)
    /\ pc' = "single_entry"
    /\ UNCHANGED <<input, router, multi, log>>

\* if best_van: accumulate and go on; else: break
MultiAccept_keep_pool ==
    /\ pc = "multi_accept"
    /\ LET best_van == single.result[1]
           dist == single.result[2]
           fuel == single.result[3]
           route == single.result[4]
       IN  multi' =
              IF best_van # None
              THEN [multi EXCEPT
                      !.vans_used = Append(@, best_van),
                      !.total_distance = @ + dist,
                      !.total_fuel = @ + fuel,
                      !.routes = Append(@, route),
                      !.i = @ + 1]
              ELSE [multi EXCEPT !.stopped = TRUE]
    /\ pc' = "multi_loop"
    /\ UNCHANGED <<input, router, single, log>>

MultiAccept ==
    /\ pc = "multi_accept"
    /\ LET best_van == single.result[1]
           dist == single.result[2]
           fuel == single.result[3]
           route == single.result[4]
           best_not_completed == single.result[5]
       IN  multi' =
              IF best_van # None
              THEN [multi EXCEPT
                      !.vans_used = Append(@, best_van),
                      !.total_distance = @ + dist,
                      !.total_fuel = @ + fuel,
                      !.routes = Append(@, route),
                      !.remaining_packages = best_not_completed,
                      !.i = @ + 1]
              ELSE [multi EXCEPT !.stopped = TRUE]
    /\ pc' = "multi_loop"
    /\ UNCHANGED <<input, router, single, log>>

\* after the loop: the aggregate warning and the return
MultiReturn ==
    /\ pc = "multi_loop"
    /\ \/ multi.stopped
       \/ multi.i > Len(multi.top_vans)
       \/ multi.remaining_packages = <<>>
    /\ log' = IF multi.remaining_packages # <<>>
              THEN Append(log, <<"multiple vans", multi.remaining_packages>>)
              ELSE log
    /\ multi' = [multi EXCEPT !.result =
                    <<multi.vans_used, multi.total_distance, multi.total_fuel,
                      multi.routes>>]
    /\ pc' = "done"
    /\ UNCHANGED <<input, router, single>>

Next ==
    \/ SingleEntry
    \/ NewRouter
    \/ ActiveStep
    \/ NoValidMove
    \/ DepotReturn
    \/ SelectBest
    \/ SingleReturn
    \/ MultiEntry
    \/ MultiCall
    \/ MultiAccept
    \/ MultiReturn

Spec == Init /\ [][Next]_vars

\* ------------------------------------------------------------------------
\* Reading a route
\* ------------------------------------------------------------------------
RECURSIVE MovesOf(_, _)
\* the <<location, weight>> of the moves of a route with the given action
MovesOf(route, action) ==
    IF route = <<>> THEN <<>>
    ELSE (IF Head(route)[2] = action
          THEN <<<<Head(route)[1], Head(route)[3]>>>> ELSE <<>>)
         \o MovesOf(Tail(route), action)

RECURSIVE LoadOf(_)
\* the sum of the weights picked and not yet dropped
LoadOf(route) ==
    IF route = <<>> THEN 0
    ELSE LET m == route[Len(route)]
             before == LoadOf(SubSeq(route, 1, Len(route) - 1))
         IN  IF m[2] = "pick" THEN before + m[3]
             ELSE IF m[2] = "drop" THEN before - m[3]
             ELSE before

RECURSIVE WeightsOf(_)
WeightsOf(moves) ==
    IF moves = <<>> THEN <<>> ELSE <<Head(moves)[2]>> \o WeightsOf(Tail(moves))

RECURSIVE Flatten(_)
Flatten(rs) == IF rs = <<>> THEN <<>> ELSE Head(rs) \o Flatten(Tail(rs))

Prefix(route, k) == SubSeq(route, 1, k)

InRoute == pc \in {"construct_route", "attempt_done"}

\* find_optimal_route_for_single_van has just returned single.result
SingleReturned ==
    \/ pc = "multi_accept"
    \/ pc = "done" /\ input.mode = "single"

MultiReturned == pc = "done" /\ input.mode = "multi"

WellFormed(route) ==
    /\ route # <<>>
    /\ route[1] = StartMove
    /\ route[Len(route)] = EndMove

\* ------------------------------------------------------------------------
\* C1: during construct_route, after every move the load (the weights
\* picked and not yet dropped) is at least 0 and at most the van's capacity.
\* ------------------------------------------------------------------------
C1_LoadWithinCapacity ==
    InRoute =>
        /\ router.current_load = LoadOf(router.route)
        /\ 0 <= LoadOf(router.route)
        /\ LoadOf(router.route) <= router.van_capacity

\* a loaded van that leaves a pending pickup behind because it does not fit
C1_Witness ==
    /\ pc = "construct_route"
    /\ router.current_load > 0
    /\ Len(router.route) > 2
    /\ \E k \in 1..Len(router.pickups) :
          /\ router.pickups[k][2] <= router.van_capacity
          /\ router.current_load + router.pickups[k][2] > router.van_capacity

\* ------------------------------------------------------------------------
\* C2: every route returned with a chosen van by the single-van optimizer,
\* and every route returned by the multi-van allocator, starts with
\* (0, start, 0) and ends with (0, end, 0).
\* ------------------------------------------------------------------------
C2_RoutesStartAndEndAtDepot ==
    /\ (SingleReturned /\ single.result[1] # None) => WellFormed(single.result[4])
    /\ MultiReturned =>
          \A k \in 1..Len(multi.result[4]) : WellFormed(multi.result[4][k])

\* ------------------------------------------------------------------------
\* C3: when no two packages of the window share pickup location and weight,
\* every pick is matched by its own later drop, of the same weight, at the
\* delivery location of the package picked.
\* ------------------------------------------------------------------------
DistinctPickups(pkgs) ==
    \A j, k \in 1..Len(pkgs) :
        (pkgs[j][1] = pkgs[k][1] /\ pkgs[j][3] = pkgs[k][3]) => j = k

\* the drop that the pick of <<loc, weight>> calls for
OwnDrop(pkgs, pick) ==
    LET k == CHOOSE j \in 1..Len(pkgs) :
                 pkgs[j][1] = pick[1] /\ pkgs[j][3] = pick[2]
    IN  <<pkgs[k][2], pick[2]>>

RECURSIVE OwnDrops(_, _)
OwnDrops(pkgs, picks) ==
    IF picks = <<>> THEN <<>>
    ELSE <<OwnDrop(pkgs, Head(picks))>> \o OwnDrops(pkgs, Tail(picks))

C3_DropsAtOwnDelivery ==
    (pc = "attempt_done" /\ DistinctPickups(router.packages)) =>
        /\ \A k \in 1..Len(router.route) :
              SeqToBag(MovesOf(Prefix(router.route, k), "drop"))
                \sqsubseteq
              SeqToBag(OwnDrops(router.packages,
                                MovesOf(Prefix(router.route, k), "pick")))
        /\ SeqToBag(MovesOf(router.route, "drop"))
             = SeqToBag(OwnDrops(router.packages, MovesOf(router.route, "pick")))

\* ------------------------------------------------------------------------
\* C4: the packages served by the returned route together with the returned
\* notCompleted list are the filtered input packages, as multisets of
\* (pickup, delivery, weight).
\* ------------------------------------------------------------------------
C4_Partition ==
    SingleReturned =>
        LET route == single.result[4]
            not_completed == single.result[5]
            filtered == SeqToBag(single.packages)
            left == SeqToBag(not_completed)
        IN  /\ left \sqsubseteq filtered
            /\ SeqToBag(MovesOf(route, "pick"))
                 (+) SeqToBag(MapPickups(not_completed))
                 = SeqToBag(MapPickups(single.packages))
            /\ Len(MovesOf(route, "drop")) = Len(MovesOf(route, "pick"))

\* ------------------------------------------------------------------------
\* C5: the pool handed to the next shortlisted van is exactly the filtered
\* packages that no earlier route picked up.
\* ------------------------------------------------------------------------
C5_PoolIsUnpickedPackages ==
    pc = "multi_loop" =>
        /\ SeqToBag(multi.remaining_packages) \sqsubseteq SeqToBag(multi.packages)
        /\ SeqToBag(MovesOf(Flatten(multi.routes), "pick"))
             (+) SeqToBag(MapPickups(multi.remaining_packages))
             = SeqToBag(MapPickups(multi.packages))

\* ------------------------------------------------------------------------
\* C6: when the multi-van allocator returns and some filtered package was
\* not picked up and dropped by a returned route, exactly one aggregate
\* warning has been emitted.
\* ------------------------------------------------------------------------
IsAggregateWarning(w) == w[1] = "multiple vans"

AllServed ==
    LET moves == Flatten(multi.result[4])
    IN  /\ SeqToBag(MovesOf(moves, "pick")) = SeqToBag(MapPickups(multi.packages))
        /\ SeqToBag(WeightsOf(MovesOf(moves, "drop")))
             = SeqToBag(WeightsOf(MapPickups(multi.packages)))

C6_UnservedIsWarned ==
    MultiReturned =>
        /\ Len(SelectSeq(log, IsAggregateWarning)) <= 1
        /\ ~AllServed => Len(SelectSeq(log, IsAggregateWarning)) = 1

\* ------------------------------------------------------------------------
\* C7: when construct_route returns, by either exit, as many packages were
\* delivered as picked up, the load is 0, and the picks of the route are
\* matched one to one by later drops of the same weight.
\* ------------------------------------------------------------------------
C7_PicksMatchedByDrops ==
    pc = "attempt_done" =>
        /\ router.picked_up_packages = router.delivered_packages
        /\ router.current_load = 0
        /\ Len(MovesOf(router.route, "drop")) = Len(MovesOf(router.route, "pick"))
        /\ Len(MovesOf(router.route, "pick")) = router.picked_up_packages
        /\ \A k \in 1..Len(router.route) :
              SeqToBag(WeightsOf(MovesOf(Prefix(router.route, k), "drop")))
                \sqsubseteq
              SeqToBag(WeightsOf(MovesOf(Prefix(router.route, k), "pick")))
        /\ SeqToBag(WeightsOf(MovesOf(router.route, "drop")))
             = SeqToBag(WeightsOf(MovesOf(router.route, "pick")))

\* a return after three packages were carried, two of them at once
C7_Witness ==
    /\ pc = "attempt_done"
    /\ router.picked_up_packages = 3
    /\ \E k \in 1..(Len(router.route) - 1) :
          router.route[k][2] = "pick" /\ router.route[k + 1][2] = "pick"

\* ------------------------------------------------------------------------
\* C8: with a non-empty filtered package list, the single-van optimizer
\* returns the attempt of lowest fuel among the attempts of the candidate
\* vans that picked up at least one package, the earliest van on equal fuel,
\* with that attempt's distance, route and notCompleted.
\* ------------------------------------------------------------------------
Successful == {k \in 1..Len(single.attempts) :
                  single.attempts[k].picked_up_packages > 0}

IsWinner(k) ==
    /\ k \in Successful
    /\ \A j \in Successful :
          /\ single.attempts[k].fuel <= single.attempts[j].fuel
          /\ j < k => single.attempts[k].fuel < single.attempts[j].fuel

C8_LowestFuelFirstWins ==
    (SingleReturned /\ single.packages # <<>> /\ Successful # {}) =>
        /\ Len(single.attempts) = Len(single.van_stats)
        /\ \A k \in 1..Len(single.attempts) :
              single.attempts[k].van = single.van_stats[k]
        /\ \E k \in Successful :
              /\ IsWinner(k)
              /\ single.result =
                    <<single.attempts[k].van, single.attempts[k].dist,
                      single.attempts[k].fuel, single.attempts[k].route,
                      single.attempts[k].not_completed>>

\* two different vans tie on fuel and the first one is returned
C8_Witness ==
    /\ SingleReturned
    /\ Len(single.attempts) = 2
    /\ Successful = {1, 2}
    /\ single.attempts[1].fuel = single.attempts[2].fuel
    /\ single.attempts[1].van # single.attempts[2].van
    /\ single.result[1] = single.attempts[1].van

\* ------------------------------------------------------------------------
\* C9: with a non-empty filtered package list, when no candidate van picks
\* anything up, the single-van optimizer returns
\* (None, 0, 0, [], filteredPackages).
\* ------------------------------------------------------------------------
C9_NothingPickedUp ==
    (SingleReturned /\ single.packages # <<>> /\ Successful = {}) =>
        single.result = <<None, 0, 0, <<>>, single.packages>>

\* a van was tried and every package was too heavy for it
C9_Witness ==
    /\ SingleReturned
    /\ single.packages # <<>>
    /\ Len(single.attempts) > 0
    /\ Successful = {}
    /\ single.result[5] = single.packages

\* ------------------------------------------------------------------------
\* C10: for vans [(10,10),(9,8)] and packages [(-1,5,4),(6,2,9),(-2,9,3)]
\* the single-van optimizer chooses van (9,8), the route start, pick -1,
\* pick -2, drop 5, drop 9, pick 6, drop 2, end, distance 22 and fuel 176.
\* ------------------------------------------------------------------------
RECURSIVE Simplified(_)
\* [(loc, action) for loc, action, weight in route]
Simplified(route) ==
    IF route = <<>> THEN <<>>
    ELSE <<<<Head(route)[1], Head(route)[2]>>>> \o Simplified(Tail(route))

IsBasicExample ==
    /\ input.mode = "single"
    /\ input.vans = BasicVanStats
    /\ input.packages = BasicPackages

C10_BasicExample ==
    (IsBasicExample /\ pc = "done") =>
        /\ single.result[1] = <<9, 8>>
        /\ Simplified(single.result[4]) =
              <<<<0, "start">>, <<-1, "pick">>, <<-2, "pick">>, <<5, "drop">>,
                <<9, "drop">>, <<6, "pick">>, <<2, "drop">>, <<0, "end">>>>
        /\ single.result[2] = 22
        /\ single.result[3] = 176

\* the example has run: both vans were tried and the second one is cheaper
C10_Witness ==
    /\ IsBasicExample
    /\ pc = "done"
    /\ Len(single.attempts) = 2
    /\ single.attempts[2].fuel < single.attempts[1].fuel

\* ------------------------------------------------------------------------
\* C11: vans_used is a prefix of the shortlist, the at most 3 valid vans of
\* lowest fuel per unit in ascending order (input order on equal fuel); there
\* is one route per van used, the route of that van's attempt, and once a
\* shortlisted van selects nothing no later van is tried.
\* ------------------------------------------------------------------------
\* van number a of vans comes before van number b in the shortlist order
FuelBefore(vans, a, b) ==
    \/ vans[a][2] < vans[b][2]
    \/ vans[a][2] = vans[b][2] /\ a < b

IsShortlist(top, vans) ==
    LET n == Min(ShortlistSize, Len(vans))
    IN  /\ Len(top) = n
        /\ \E f \in [1..n -> 1..Len(vans)] :
              /\ \A k \in 1..n : top[k] = vans[f[k]]
              /\ \A j, k \in 1..n : j < k => FuelBefore(vans, f[j], f[k])
              /\ \A m \in 1..Len(vans) :
                    (\A k \in 1..n : f[k] # m) =>
                        \A k \in 1..n : FuelBefore(vans, f[k], m)

InMulti == input.mode = "multi" /\ pc # "multi_entry"

C11_UsedVansArePrefixOfShortlist ==
    InMulti =>
        /\ IsShortlist(multi.top_vans, valid_van_stats(input.vans))
        /\ Len(multi.vans_used) <= 3
        /\ Len(multi.routes) = Len(multi.vans_used)
        /\ multi.vans_used = SubSeq(multi.top_vans, 1, Len(multi.vans_used))
        /\ multi.i = Len(multi.vans_used) + 1
        /\ multi.stopped => pc \in {"multi_loop", "done"}
        /\ (pc = "multi_loop" /\ multi.routes # <<>> /\ ~multi.stopped) =>
              /\ single.van_stats = <<multi.vans_used[Len(multi.vans_used)]>>
              /\ multi.routes[Len(multi.routes)] = single.result[4]

\* a van selected nothing and a later shortlisted van was left untried
C11_Witness ==
    /\ MultiReturned
    /\ multi.stopped
    /\ multi.i < Len(multi.top_vans)
    /\ multi.top_vans # valid_van_stats(input.vans)

\* ------------------------------------------------------------------------
\* C12: at every step of construct_route and at both returns, total_fuel is
\* total_distance times the van's fuel per unit, and total_distance is the
\* sum of the distances between the consecutive locations of the route.
\* ------------------------------------------------------------------------
RECURSIVE PathLength(_)
PathLength(route) ==
    IF Len(route) < 2 THEN 0
    ELSE Abs(route[2][1] - route[1][1]) + PathLength(Tail(route))

C12_FuelIsDistanceTimesRate ==
    InRoute =>
        /\ router.total_fuel = router.total_distance * router.fuel_per_unit
        /\ router.total_distance = PathLength(router.route)

\* a finished route whose last stop before the depot is away from it
C12_Witness ==
    /\ pc = "attempt_done"
    /\ router.route[Len(router.route)] = EndMove
    /\ router.route[Len(router.route) - 1][1] # 0
    /\ router.fuel_per_unit > 1

\* ------------------------------------------------------------------------
\* C13: VanRouter.__init__ takes as window the min(5, n) packages nearest to
\* the depot by pickup location and leaves the others unchanged in
\* not_completed before any move is made.  As claimed, packages equally far
\* are preferred in input order; as amended, in the order of their
\* (pickup, delivery, weight) tuples.
\* ------------------------------------------------------------------------
\* the router has just been constructed from single.packages
FreshRouter == pc = "construct_route" /\ Len(router.route) = 1

\* package number a of pkgs is taken before package number b: input order
\* decides between equal distances
StableBefore(pkgs, a, b) ==
    \/ Abs(pkgs[a][1]) < Abs(pkgs[b][1])
    \/ Abs(pkgs[a][1]) = Abs(pkgs[b][1]) /\ a < b

InStableWindow(pkgs, k) ==
    Cardinality({j \in 1..Len(pkgs) : StableBefore(pkgs, j, k)}) < WindowSize

RECURSIVE StablePart(_, _, _)
\* the packages of pkgs from number k on that are inside (outside) the window
StablePart(pkgs, k, inside) ==
    IF k > Len(pkgs) THEN <<>>
    ELSE (IF InStableWindow(pkgs, k) = inside THEN <<pkgs[k]>> ELSE <<>>)
         \o StablePart(pkgs, k + 1, inside)

C13_WindowTiesByInputOrder ==
    FreshRouter =>
        /\ SeqToBag(router.packages)
             = SeqToBag(StablePart(single.packages, 1, TRUE))
        /\ SeqToBag(router.not_completed)
             = SeqToBag(StablePart(single.packages, 1, FALSE))

\* package a is taken before package b: distance from the depot, then the
\* tuple order of (pickup, delivery, weight)
ValueBefore(a, b) ==
    \/ Abs(a[1]) < Abs(b[1])
    \/ /\ Abs(a[1]) = Abs(b[1])
       /\ \/ a[1] < b[1]
          \/ a[1] = b[1] /\ a[2] < b[2]
          \/ a[1] = b[1] /\ a[2] = b[2] /\ a[3] < b[3]

C13_WindowTiesByValue ==
    FreshRouter =>
        /\ Len(router.packages) = Min(5, Len(single.packages))
        /\ SeqToBag(router.packages) (+) SeqToBag(router.not_completed)
             = SeqToBag(single.packages)
        /\ \A j, k \in 1..Len(router.packages) :
              j < k => ~ValueBefore(router.packages[k], router.packages[j])
        /\ \A j \in 1..Len(router.not_completed) :
              \A k \in 1..Len(router.packages) :
                 ~ValueBefore(router.not_completed[j], router.packages[k])
        /\ router.pickups = MapPickups(router.packages)
        /\ router.picked_up_packages = 0

\* a package is left out of the window although it is as near to the depot
\* as a package inside, and it comes earlier in the input list
C13_Witness ==
    /\ FreshRouter
    /\ Len(single.packages) > WindowSize
    /\ \E j, k \in 1..Len(single.packages) :
          /\ j < k
          /\ Abs(single.packages[j][1]) = Abs(single.packages[k][1])
          /\ single.packages[j] \in {router.not_completed[n] :
                                       n \in 1..Len(router.not_completed)}
          /\ single.packages[k] \in {router.packages[n] :
                                       n \in 1..Len(router.packages)}
          /\ single.packages[j] # single.packages[k]

\* ------------------------------------------------------------------------
\* C14: in find_nearest_valid_move, among several feasible pickups (or
\* several pending deliveries) at the same minimum distance, the one chosen
\* is, as claimed, the one inserted earliest into its pending list; as
\* amended, the one with the smallest (location, weight) in tuple order.
\* ------------------------------------------------------------------------
\* a move is about to be chosen
Choosing == pc = "construct_route" /\ LoopGuard(router)

\* the pending list the move was taken from
PendingOf(move) ==
    IF move[3] = "pick" THEN router.pickups ELSE router.deliveries

\* entry number k of the pending list may be chosen for this action
IsCandidate(action, k) ==
    action = "pick" =>
        router.current_load + router.pickups[k][2] <= router.van_capacity

\* the entries of the move's pending list that are candidates at the
\* minimum distance from the current location
Nearest(move) ==
    LET pending == PendingOf(move)
        cands == {k \in 1..Len(pending) : IsCandidate(move[3], k)}
        far(k) == Abs(router.current_location - pending[k][1])
    IN  {k \in cands : \A j \in cands : far(k) <= far(j)}

C14_TiesByInsertionOrder ==
    (Choosing /\ find_nearest_valid_move(router) # None) =>
        LET move == find_nearest_valid_move(router)
            first == CHOOSE k \in Nearest(move) :
                         \A j \in Nearest(move) : k <= j
        IN  <<move[2], move[4]>> = PendingOf(move)[first]

C14_TiesByValue ==
    (Choosing /\ find_nearest_valid_move(router) # None) =>
        LET move == find_nearest_valid_move(router)
            pending == PendingOf(move)
        IN  /\ \E k \in Nearest(move) : pending[k] = <<move[2], move[4]>>
            /\ move[1] = Abs(router.current_location - move[2])
            /\ \A j \in Nearest(move) :
                  \/ move[2] < pending[j][1]
                  \/ move[2] = pending[j][1] /\ move[4] <= pending[j][2]

\* two feasible pickups are equally near and the one inserted later is chosen
C14_Witness ==
    /\ Choosing
    /\ find_nearest_valid_move(router) # None
    /\ find_nearest_valid_move(router)[3] = "pick"
    /\ \E j, k \in Nearest(find_nearest_valid_move(router)) :
          /\ j < k
          /\ router.pickups[j] # router.pickups[k]
          /\ router.pickups[k] = <<find_nearest_valid_move(router)[2],
                                   find_nearest_valid_move(router)[4]>>

\* ------------------------------------------------------------------------
\* C15: in every active step find_nearest_valid_move returns a pick exactly
\* when a capacity-feasible pending pickup exists and either no delivery is
\* pending or the nearest feasible pickup is no farther than the nearest
\* delivery; otherwise the nearest drop if a delivery is pending, and None
\* only if there is neither.  An infeasible pickup is never returned.
\* ------------------------------------------------------------------------
FeasiblePickups ==
    {k \in 1..Len(router.pickups) :
        router.current_load + router.pickups[k][2] <= router.van_capacity}

PickupDistance(k) == Abs(router.current_location - router.pickups[k][1])

DeliveryDistance(k) == Abs(router.current_location - router.deliveries[k][1])

\* a feasible pickup at least as near as every pending delivery
PickupWins ==
    \E k \in FeasiblePickups :
        \A j \in 1..Len(router.deliveries) :
            PickupDistance(k) <= DeliveryDistance(j)

IsNearestPick(move) ==
    /\ move # None
    /\ move[3] = "pick"
    /\ \E k \in FeasiblePickups :
          /\ router.pickups[k] = <<move[2], move[4]>>
          /\ move[1] = PickupDistance(k)
          /\ \A j \in FeasiblePickups : PickupDistance(k) <= PickupDistance(j)

IsNearestDrop(move) ==
    /\ move # None
    /\ move[3] = "drop"
    /\ \E k \in 1..Len(router.deliveries) :
          /\ router.deliveries[k] = <<move[2], move[4]>>
          /\ move[1] = DeliveryDistance(k)
          /\ \A j \in 1..Len(router.deliveries) :
                DeliveryDistance(k) <= DeliveryDistance(j)

C15_PickIffFeasibleAndNoFarther ==
    Choosing =>
        LET move == find_nearest_valid_move(router)
        IN  IF PickupWins THEN IsNearestPick(move)
            ELSE IF router.deliveries # <<>> THEN IsNearestDrop(move)
            ELSE move = None

\* a feasible pickup and a delivery are equally near, and the pickup is taken
C15_Witness ==
    /\ Choosing
    /\ router.deliveries # <<>>
    /\ PickupWins
    /\ \E k \in FeasiblePickups : \E j \in 1..Len(router.deliveries) :
          PickupDistance(k) = DeliveryDistance(j)
    /\ IsNearestPick(find_nearest_valid_move(router))

\* ------------------------------------------------------------------------
\* C16: when no candidate move exists while pickups are still pending,
\* construct_route ends at once: every pending pickup and delivery is
\* appended to not_completed as (loc, loc, weight), no (0, end, 0) move is
\* appended, no return leg is added to distance or fuel, and the route,
\* distance and fuel reached so far are what the run returns.
\* ------------------------------------------------------------------------
NoCandidate ==
    /\ Choosing
    /\ router.pickups # <<>>
    /\ FeasiblePickups = {}
    /\ router.deliveries = <<>>

AsSelfTriples(pending) ==
    [k \in 1..Len(pending) |-> <<pending[k][1], pending[k][1], pending[k][2]>>]

EarlyReturn ==
    /\ pc' = "attempt_done"
    /\ router'.route = router.route
    /\ router'.total_distance = router.total_distance
    /\ router'.total_fuel = router.total_fuel
    /\ router'.not_completed =
          router.not_completed \o AsSelfTriples(router.pickups)
                               \o AsSelfTriples(router.deliveries)

C16_NoMoveEndsRunInPlace == [][NoCandidate => EarlyReturn]_vars

\* a run has ended away from the depot with a route that was never closed
C16_Witness ==
    /\ pc = "attempt_done"
    /\ router.route[Len(router.route)] # EndMove
    /\ Len(router.route) > 1
    /\ router.current_location # 0
    /\ PathLength(router.route) = router.total_distance
    /\ router.pickups # <<>>
    /\ router.not_completed = AsSelfTriples(router.pickups)

\* ------------------------------------------------------------------------
\* C17: construct_route always terminates: every active step increases
\* picked_up_packages + delivered_packages by exactly one and strictly
\* shrinks the outstanding work, so at most 10 active steps run and the
\* returned route has at most 12 moves (start, at most 5 picks, at most 5
\* drops, end).
\* ------------------------------------------------------------------------
Events(r) == r.picked_up_packages + r.delivered_packages

\* a pending pickup still needs a pick and a drop, a delivery a drop
OutstandingWork(r) == 2 * Len(r.pickups) + Len(r.deliveries)

RunWithinCap ==
    InRoute =>
        /\ Events(router) <= 10
        /\ Len(router.route) <= 12
        /\ Len(MovesOf(router.route, "pick")) <= 5
        /\ Len(MovesOf(router.route, "drop")) <= 5
        /\ Len(MovesOf(router.route, "pick")) = router.picked_up_packages
        /\ Len(MovesOf(router.route, "drop")) = router.delivered_packages

\* a step of the loop that does not end the run
StepShrinksWork ==
    (pc = "construct_route" /\ pc' = "construct_route") =>
        /\ Events(router') = Events(router) + 1
        /\ OutstandingWork(router') < OutstandingWork(router)
        /\ Len(router'.route) = Len(router.route) + 1

\* the work left is a natural number that every step of the loop lowers, and
\* the bounds hold before and after every step
C17_RunTerminatesWithinCap ==
    [][StepShrinksWork /\ RunWithinCap /\ RunWithinCap']_vars

\* a run that used all ten events and returned a route of twelve moves
C17_Witness ==
    /\ pc = "attempt_done"
    /\ Events(router) = 10
    /\ Len(router.route) = 12
    /\ router.route[12] = EndMove

\* ------------------------------------------------------------------------
\* C18: within one construct_route run every windowed package whose weight
\* is at most the van's capacity is picked up and dropped before the run
\* ends; the no-valid-move exit is reached only in a state where the load is
\* 0, no delivery is in transit and every still-pending pickup is heavier
\* than the van's capacity.
\* ------------------------------------------------------------------------
RECURSIVE Fitting(_, _)
\* the (pickup, weight) of the packages that are not heavier than capacity
Fitting(pkgs, capacity) ==
    IF pkgs = <<>> THEN <<>>
    ELSE (IF Head(pkgs)[3] <= capacity
          THEN <<<<Head(pkgs)[1], Head(pkgs)[3]>>>> ELSE <<>>)
         \o Fitting(Tail(pkgs), capacity)

AllTooHeavy(pending, capacity) ==
    \A k \in 1..Len(pending) : pending[k][2] > capacity

\* the state the run is in when it finds no move, and when it has ended
NothingLeftThatFits ==
    /\ router.current_load = 0
    /\ router.deliveries = <<>>
    /\ AllTooHeavy(router.pickups, router.van_capacity)

RunEnded == pc = "attempt_done"

C18_EveryFittingPackageIsServed ==
    /\ (Choosing /\ find_nearest_valid_move(router) = None)
           => NothingLeftThatFits
    /\ RunEnded =>
          /\ NothingLeftThatFits
          /\ SeqToBag(MovesOf(router.route, "pick"))
               = SeqToBag(Fitting(router.packages, router.van_capacity))
          /\ SeqToBag(WeightsOf(MovesOf(router.route, "drop")))
               = SeqToBag(WeightsOf(MovesOf(router.route, "pick")))

\* a run that served a package and then left a heavier one behind
C18_Witness ==
    /\ RunEnded
    /\ router.route[Len(router.route)] # EndMove
    /\ MovesOf(router.route, "drop") # <<>>
    /\ router.pickups # <<>>
    /\ Len(Fitting(router.packages, router.van_capacity))
          < Len(router.packages)

\* ------------------------------------------------------------------------
\* C19: whenever construct_route reaches the depot-return step, the pending
\* pickup list and the in-transit delivery list are both empty and the load
\* is 0; the 10-event cap never cuts off a run with work still pending, so
\* the depot-return step adds nothing to not_completed.
\* ------------------------------------------------------------------------
\* the while loop has ended: the next step is the return to the depot
AtDepotReturn == pc = "construct_route" /\ ~LoopGuard(router)

NothingPending ==
    /\ router.pickups = <<>>
    /\ router.deliveries = <<>>
    /\ router.current_load = 0

ClosesRoute ==
    /\ router'.route = Append(router.route, <<0, "end", 0>>)
    /\ router'.not_completed = router.not_completed

C19_DepotReturnLeavesNothingBehind ==
    [][AtDepotReturn => (NothingPending /\ ClosesRoute)]_vars

\* the loop ended with the cap reached, a package outside the window already
\* in not_completed
C19_Witness ==
    /\ AtDepotReturn
    /\ router.picked_up_packages + router.delivered_packages = EventCap
    /\ router.not_completed # <<>>

\* ------------------------------------------------------------------------
\* C20: across all routes returned by one call of
\* find_optimal_route_for_multiple_vans, the multiset of pick moves
\* (pickup location, weight) is a sub-multiset of the filtered input
\* packages: no package is picked up by more than one van and nothing is
\* picked up that was not in the filtered input.
\* ------------------------------------------------------------------------
AllPicks(routes) == MovesOf(Flatten(routes), "pick")

C20_PicksAreFilteredPackages ==
    InMulti =>
        /\ SeqToBag(AllPicks(multi.routes))
              \sqsubseteq SeqToBag(MapPickups(valid_packages(input.packages)))
        /\ MultiReturned => multi.result[4] = multi.routes

\* two vans each picked packages, and together each package exactly once
C20_Witness ==
    /\ MultiReturned
    /\ Len(multi.result[4]) >= 2
    /\ \A k \in 1..Len(multi.result[4]) :
          MovesOf(multi.result[4][k], "pick") # <<>>
    /\ SeqToBag(AllPicks(multi.result[4]))
          = SeqToBag(MapPickups(valid_packages(input.packages)))

====
